---- MODULE Spec2Model ----
(***************************************************************************)
(* A model of anilist-tools' "upcoming sequels" checker:                   *)
(*   utils.py             safe_post_request, depaginated_request, async_any *)
(*   upcoming_sequels.py  get_user_id_by_name, get_user_media,              *)
(*                        get_season_shows, get_related_media, main         *)
(* The program is one thread of control that suspends at `await`s and at   *)
(* the generator's `yield`.  Each layer keeps its own position (tpc, ppc,  *)
(* wpc, mpc); an action is the code that runs between two suspensions.     *)
(* The AniList server is the environment: its answers are drawn from       *)
(* small sets when a request in flight is answered.                        *)
(* Time is counted in tenths of a second (asyncio.sleep(0.1) is 1).        *)
(***************************************************************************)
EXTENDS Integers, Sequences, FiniteSets, TLC

VARIABLES
    \* ---- safe_post_request (utils.py:10-59)
    tpc,            \* position: idle, post17, sleep31, sleep44, sleep50, returned, raised
    post_json,      \* the argument of the call in progress
    response,       \* <<>> is None, <<r>> is a requests.Response
    sleep_for,      \* duration of the asyncio.sleep in progress, in tenths of a second
    total_queries,  \* safe_post_request.total_queries
    result,         \* the value returned by the last call that returned
    exc,            \* the exception raised by the last call that raised, "" if it returned
    \* ---- depaginated_request (utils.py:66-99)
    ppc,            \* position: idle, await81, returned, failed
    query,
    paginated_variables,
    page_num,
    out_list,
    \* ---- get_related_media (upcoming_sequels.py:83-131), an async generator
    wpc,            \* position: idle, await116, for118, yield124, exhausted, failed
    show_id,
    queue,
    related_show_ids,
    cur_show_id,
    relations,      \* the edges the `for` loop has not finished with; the first is `relation`
    \* ---- async_any over the generator expression (utils.py:113-119, upcoming_sequels.py:169)
    apc,            \* position: idle, iterating, returned, raised
    user_media_ids,
    any_result,     \* the value async_any returned
    \* ---- main (upcoming_sequels.py:134-173)
    mpc,            \* position: idle, await147, for150, await150, for156, await167,
                    \*           for167, await169, done, aborted
    user_id,
    by_status,      \* user_media_ids_by_status, the sets of the statuses done so far
    cur_date,
    season_i,       \* the `i` of the loop over seasons
    shows,          \* the list get_season_shows returned
    show_n,         \* how many shows of the list the loop has finished with
    stdout,         \* the lines printed
    \* ---- the network and the server
    in_flight,      \* the requests posted and not yet answered
    rate_limits,    \* how many more rate-limit answers the server will give
    source,         \* the collection the paginated query in progress selects
    graph,          \* the relation edges of the media the server has been asked about
    known,          \* the media the server has been asked about
    edges_left,     \* how many more relation edges the server's graph may get
    items_left,     \* how many more list items the server may hold, for each paginated query
    server,         \* the kinds of good answers the server gives: the shapes of its pages,
                    \* the headers, whether the body has an `errors` key, its page sizes
    \* ---- observation of the call in progress
    calls,          \* calls of safe_post_request started so far
    n429,           \* 429 responses the call in progress has received
    answered,       \* responses other than 429 received by the run of main in progress
    pages,          \* the page numbers the depagination in progress has requested, in order
    yielded,        \* the IDs the walk in progress has yielded, in order
    expanded,       \* the IDs the walk in progress has asked the relations of, in order
    visited_by,     \* the edges through which the walk in progress first visited a node
    consumed,       \* how many yields of the walk in progress async_any has taken
    listed,         \* the media IDs in the lists the server holds for the user
    verdicts        \* for each show the season loop has finished with: did its walk
                    \* yield a media of the user's, and did the walk end

tvars == <<tpc, post_json, response, sleep_for, total_queries, result, exc, calls, n429, answered,
           answered>>
pvars == <<ppc, query, paginated_variables, page_num, out_list, pages>>
nvars == <<in_flight, rate_limits>>
wvars == <<wpc, show_id, queue, related_show_ids, cur_show_id, relations,
           yielded, expanded, visited_by>>
avars == <<apc, user_media_ids, any_result, consumed>>
mvars == <<mpc, user_id, by_status, cur_date, season_i, shows, show_n, stdout, verdicts,
           listed>>
svars == <<source, graph, known, edges_left, items_left, server>>
callers == <<pvars, wvars, avars, mvars>>
vars == <<tvars, pvars, wvars, avars, mvars, nvars, svars>>

-----------------------------------------------------------------------------
(* Bounds of the model *)

MaxRateLimited == 2     \* rate-limit answers the server gives in a behaviour of SpecPost
MaxRateLimitedPage == 1 \* rate-limit answers the server gives in a behaviour of SpecPage
MaxRateLimitedWalk == 1 \* rate-limit answers the server gives in a behaviour of SpecWalk
MaxCalls == 3           \* calls of safe_post_request a behaviour of SpecPost starts
MaxId == 3              \* media IDs are 1..MaxId
MaxItems == 3           \* items in a paginated collection
MaxServerPage == 2      \* the largest page the server serves
MaxEdges == 2           \* relation edges in the server's graph, in SpecWalk
MaxRateLimitedMain == 1 \* rate-limit answers the server gives in a behaviour of SpecMain
MaxEdgesMain == 1       \* relation edges in the server's graph, in SpecMain
MaxUserItemsMain == 1   \* items in all the user's lists, in SpecMain
MaxShowsMain == 2       \* shows in all the seasons, in SpecMain

Ids == 1..MaxId

-----------------------------------------------------------------------------
(* Values *)

None == <<"None">>
Null == "null"

\* The decimal strings a Retry-After header carries, as sequences of digits.
RetryAfterValues == {<<0>>, <<2>>, <<1, 0>>}

RECURSIVE int(_)
int(digits) ==
    IF digits = <<>> THEN 0
    ELSE 10 * int(SubSeq(digits, 1, Len(digits) - 1)) + digits[Len(digits)]

Tenths(seconds) == 10 * seconds

\* response.headers, as a set of <<name, value>> pairs
HasHeader(r, name) == \E h \in r.headers : h[1] = name
Header(r, name) == (CHOOSE h \in r.headers : h[1] = name)[2]

NoHeaders == {}
RetryAfterHeaders == {{<<"Retry-After", v>>} : v \in RetryAfterValues}
\* the headers of the answers that are not rate-limit answers
OtherHeaders == {NoHeaders, {<<"Retry-After", <<2>>>>}}

\* an error, had only the 5xx statuses counted
RaisesForServerError(r) == r.status_code >= 500 /\ r.status_code < 600

\* requests.Response.ok / raise_for_status: an error is a 4xx or 5xx status
RaisesForStatus(r) == r.status_code >= 400 /\ r.status_code < 600
ok(r) == ~RaisesForStatus(r)

ErrorsList == <<"error">>

-----------------------------------------------------------------------------
(* JSON documents whose shape the program inspects: an object is the       *)
(* sequence of its <<key, value>> members in document order (a Python dict  *)
(* keeps it), a list is the sequence of its elements.                       *)

Obj(kv) == [t |-> "obj", kv |-> kv, items |-> <<>>, b |-> FALSE]
List(items) == [t |-> "list", kv |-> <<>>, items |-> items, b |-> FALSE]
Bool(b) == [t |-> "bool", kv |-> <<>>, items |-> <<>>, b |-> b]
JNull == [t |-> "null", kv |-> <<>>, items |-> <<>>, b |-> FALSE]
KV(k, v) == [k |-> k, v |-> v]

\* `key in d`, `d[key]`, `len(d)` of a dict d
Has(d, key) == \E i \in 1..Len(d.kv) : d.kv[i].k = key
Get(d, key) == d.kv[CHOOSE i \in 1..Len(d.kv) : d.kv[i].k = key].v
len(d) == IF d.t = "obj" THEN Len(d.kv) ELSE Len(d.items)

-----------------------------------------------------------------------------
(* The requests the program makes *)

Usernames == {"alice"}
Statuses == <<"COMPLETED", "PLANNING", "CURRENT">>     \* upcoming_sequels.py:151

NoRequest == [query |-> "", variables |-> <<>>]

query_user_id(username) ==
    [query |-> "query_user_id", variables |-> [username |-> username]]

user_media_query == "user_media"         \* upcoming_sequels.py:24-43
season_shows_query == "season_shows"     \* upcoming_sequels.py:51-65
PagedQueries == {user_media_query, season_shows_query}

relations_query(mediaId) ==
    [query |-> "relations", variables |-> [mediaId |-> mediaId]]

-----------------------------------------------------------------------------
(* The server's answers *)

UserIds == {7}

Min(a, b) == IF a < b THEN a ELSE b

None_or(a, b) == IF a # None /\ a # <<>> THEN a ELSE b     \* Python's `a or b` on titles

\* The titles of media n: media with an even ID have no English title.
TitleOf(n) ==
    [english |-> IF n % 2 = 0 THEN None ELSE <<"en", n>>, romaji |-> <<"ro", n>>]

\* One element of the list a paginated query returns.
Item(q, n) ==
    IF q = user_media_query
    THEN [media |-> [id |-> n, title |-> TitleOf(n)]]
    ELSE [id |-> n, title |-> TitleOf(n)]

\* The collections of at most n items the server may hold for a paginated query.
Sources(q, n) ==
    {[items |-> its, page_size |-> p] :
        its \in UNION {[1..k -> IF q = user_media_query THEN server.user_media
                                                         ELSE server.season_media] :
                       k \in 0..n},
        p \in server.page_sizes}

\* The slice of the collection a page request selects, and whether more follows.
PageOf(src, pv) ==
    LET per == Min(pv.perPage, src.page_size)
        first == (pv.page - 1) * per + 1
        last == Min(pv.page * per, Len(src.items))
    IN  [items |-> SubSeq(src.items, first, last),
         hasNextPage |-> pv.page * per < Len(src.items)]

PageInfo(more) == Obj(<<KV("hasNextPage", Bool(more))>>)

\* The shapes in which the server wraps a page.  The first four meet the
\* precondition of depaginated_request, the others do not.
GoodShapes == {"page", "items_first", "nested", "bare"}
BadShapes == {"empty", "no_page_info", "two_fields", "only_page_info", "three_fields",
              "null"}

Shaped(shape, items, more) ==
    CASE shape = "page" ->
            Obj(<<KV("Page", Obj(<<KV("pageInfo", PageInfo(more)),
                                   KV("media", List(items))>>))>>)
      [] shape = "items_first" ->
            Obj(<<KV("Page", Obj(<<KV("mediaList", List(items)),
                                   KV("pageInfo", PageInfo(more))>>))>>)
      [] shape = "nested" ->
            Obj(<<KV("Media", Obj(<<KV("staff",
                    Obj(<<KV("pageInfo", PageInfo(more)),
                          KV("edges", List(items))>>))>>))>>)
      [] shape = "bare" ->
            Obj(<<KV("pageInfo", PageInfo(more)), KV("media", List(items))>>)
      [] shape = "empty" ->
            Obj(<<KV("Page", Obj(<<>>))>>)
      [] shape = "no_page_info" ->
            Obj(<<KV("Page", Obj(<<KV("media", List(items))>>))>>)
      [] shape = "two_fields" ->
            Obj(<<KV("Page", Obj(<<KV("media", List(items)),
                                   KV("total", Bool(more))>>))>>)
      [] shape = "only_page_info" ->
            Obj(<<KV("Page", Obj(<<KV("pageInfo", PageInfo(more))>>))>>)
      [] shape = "three_fields" ->
            Obj(<<KV("Page", Obj(<<KV("pageInfo", PageInfo(more)),
                                   KV("media", List(items)),
                                   KV("mediaList", List(items))>>))>>)
      [] shape = "null" -> JNull

PageData(req, shapes) ==
    LET pg == PageOf(source, req.variables)
        items == [i \in 1..Len(pg.items) |-> Item(req.query, pg.items[i])]
    IN  {Shaped(sh, items, pg.hasNextPage) : sh \in shapes}

\* Relation edges as the server returns them.
RelationTypes == {"SEQUEL", "SIDE_STORY"}
TagLists == {<<>>, <<[name |-> "Crossover"]>>}

Edges ==
    {[relationType |-> t, node |-> [id |-> n, tags |-> tg]] :
        t \in server.relation_types, n \in server.related, tg \in server.tag_lists}

\* The tags of a media are the same wherever the server mentions it.
SameTags(es) ==
    LET all == {es[i] : i \in 1..Len(es)}
               \cup UNION {{graph[n][i] : i \in 1..Len(graph[n])} : n \in Ids}
    IN  \A e1 \in all, e2 \in all : e1.node.id = e2.node.id => e1.node.tags = e2.node.tags

\* The edge lists the server may hold for mediaId: the one it has already
\* returned, or else any list that keeps the graph within its number of edges.
EdgeListsOf(mediaId) ==
    IF mediaId \in known THEN {graph[mediaId]}
    ELSE {es \in UNION {[1..k -> Edges] : k \in 0..edges_left} : SameTags(es)}

\* The `data` of a good answer to the request req.
OkData(req) ==
    CASE req.query = "query_user_id" -> {[User |-> [id |-> u]] : u \in UserIds}
      [] req.query \in PagedQueries -> PageData(req, server.shapes)
      [] req.query = "relations" ->
            {[Media |-> [relations |-> [edges |-> es]]] :
                es \in EdgeListsOf(req.variables.mediaId)}

\* What answering req with the data d leaves changed on the server.
ServerAfter(req, d) ==
    IF req.query = "relations"
    THEN /\ graph' = [graph EXCEPT ![req.variables.mediaId] = d.Media.relations.edges]
         /\ known' = known \cup {req.variables.mediaId}
         /\ edges_left' = IF req.variables.mediaId \in known THEN edges_left
                          ELSE edges_left - Len(d.Media.relations.edges)
         /\ UNCHANGED <<source, items_left, server>>
    ELSE UNCHANGED svars

\* Bodies: a JSON object with a `data` key and, possibly, an `errors` key.
Bodies(d) == {[data |-> d], [data |-> d, errors |-> ErrorsList]}

OkBodies(d) == {b \in Bodies(d) : ("errors" \in DOMAIN b) \in server.errors}

OkResponses(req) ==
    {[status_code |-> 200, headers |-> h, json |-> b] :
        h \in server.headers,
        b \in UNION {OkBodies(d) : d \in OkData(req)}}

ErrorStatuses == {404, 500}

ErrorResponses ==
    {[status_code |-> s, headers |-> h, json |-> b] :
        s \in server.error_statuses,
        h \in server.headers,
        b \in {b \in Bodies(Null) : ("errors" \in DOMAIN b) \in server.error_errors}}

RateLimitedResponses ==
    {[status_code |-> 429, headers |-> h, json |-> b] :
        h \in server.rate_limit_headers,
        b \in {[data |-> Null, errors |-> ErrorsList]}}

-----------------------------------------------------------------------------
(* safe_post_request, utils.py:10-59 *)

JsWaitSeconds == 61     \* utils.py:31
FastRetryTenths == 1    \* utils.py:50, asyncio.sleep(0.1)

\* the request is awaited again, had it not been posted again
PostDropped(req) ==
    /\ tpc' = "post17"
    /\ in_flight' = in_flight

\* utils.py:17, requests.post(URL, json=post_json)
Post(req) ==
    /\ tpc' = "post17"
    /\ in_flight' = Append(in_flight, req)

\* utils.py:14-17: the call runs up to its first requests.post
SafePostCall(req) ==
    /\ post_json' = req
    /\ response' = <<>>
    /\ sleep_for' = 0
    /\ result' = Null
    /\ calls' = calls + 1
    /\ n429' = 0
    /\ tpc' = "post17"
    /\ in_flight' = Append(in_flight, req)
    /\ UNCHANGED <<total_queries, exc, rate_limits, answered>>

\* the sleep, had line 39 not added the second
SleepAfterExact(r) ==
    IF HasHeader(r, "Retry-After")
    THEN [pc |-> "sleep44", tenths |-> Tenths(int(Header(r, "Retry-After")))]
    ELSE [pc |-> "sleep50", tenths |-> FastRetryTenths]

\* utils.py:38-50: the sleep that follows every response
SleepAfter(r) ==
    IF HasHeader(r, "Retry-After")
    THEN [pc |-> "sleep44", tenths |-> Tenths(int(Header(r, "Retry-After")) + 1)]
    ELSE [pc |-> "sleep50", tenths |-> FastRetryTenths]

\* the receipt, had line 52 stood inside the loop
ReceiveCounted(r) ==
    /\ tpc = "post17"
    /\ in_flight # <<>>
    /\ response' = <<r>>
    /\ in_flight' = Tail(in_flight)
    /\ tpc' = SleepAfter(r).pc
    /\ sleep_for' = SleepAfter(r).tenths
    /\ n429' = IF r.status_code = 429 THEN n429 + 1 ELSE n429
    /\ answered' = IF r.status_code = 429 THEN answered ELSE answered + 1
    /\ total_queries' = total_queries + 1
    /\ UNCHANGED <<post_json, result, exc, calls, callers>>

\* utils.py:17 returns r, then 38-50 up to the await
Receive(r) ==
    /\ tpc = "post17"
    /\ in_flight # <<>>
    /\ response' = <<r>>
    /\ in_flight' = Tail(in_flight)
    /\ tpc' = SleepAfter(r).pc
    /\ sleep_for' = SleepAfter(r).tenths
    /\ n429' = IF r.status_code = 429 THEN n429 + 1 ELSE n429
    /\ answered' = IF r.status_code = 429 THEN answered ELSE answered + 1
    /\ UNCHANGED <<post_json, total_queries, result, exc, calls, callers>>

RecvOk ==
    /\ tpc = "post17"
    /\ \E r \in OkResponses(post_json) :
        /\ Receive(r)
        /\ ServerAfter(post_json, r.json.data)
    /\ UNCHANGED rate_limits

RecvError ==
    /\ \E r \in ErrorResponses : Receive(r)
    /\ UNCHANGED <<rate_limits, svars>>

RecvRateLimited ==
    /\ rate_limits > 0
    /\ \E r \in RateLimitedResponses : Receive(r)
    /\ rate_limits' = rate_limits - 1
    /\ UNCHANGED svars

\* requests.post raises pyodide.JsException, had the request stayed in flight
RecvJsExceptionInFlight ==
    /\ tpc = "post17"
    /\ in_flight # <<>>
    /\ rate_limits > 0
    /\ rate_limits' = rate_limits - 1
    /\ in_flight' = in_flight
    /\ tpc' = "sleep31"
    /\ sleep_for' = Tenths(JsWaitSeconds)
    /\ UNCHANGED <<post_json, response, total_queries, result, exc, calls, n429, answered,
                   callers, svars>>

\* utils.py:18-33: requests.post raises pyodide.JsException (the browser hid a 429)
RecvJsException ==
    /\ tpc = "post17"
    /\ in_flight # <<>>
    /\ rate_limits > 0
    /\ rate_limits' = rate_limits - 1
    /\ in_flight' = Tail(in_flight)
    /\ tpc' = "sleep31"
    /\ sleep_for' = Tenths(JsWaitSeconds)
    /\ UNCHANGED <<post_json, response, total_queries, result, exc, calls, n429, answered,
                   callers, svars>>

\* requests.post raises anything else, had it too been waited out
RecvExceptionWaited ==
    /\ tpc = "post17"
    /\ in_flight # <<>>
    /\ in_flight' = Tail(in_flight)
    /\ tpc' = "sleep31"
    /\ sleep_for' = Tenths(JsWaitSeconds)
    /\ UNCHANGED <<post_json, response, total_queries, result, exc, calls, n429, answered,
                   rate_limits, callers, svars>>

\* utils.py:18, 35: requests.post raises anything else
RecvException ==
    /\ tpc = "post17"
    /\ in_flight # <<>>
    /\ in_flight' = Tail(in_flight)
    /\ tpc' = "raised"
    /\ exc' = "ConnectionError"
    /\ sleep_for' = 0
    /\ UNCHANGED <<post_json, response, total_queries, result, calls, n429, answered,
                   rate_limits, callers, svars>>

Sleeping == tpc \in {"sleep31", "sleep44", "sleep50"}

\* the loop condition, had the loop given up after two rate-limit answers
LoopAgainTwice ==
    IF response = <<>> THEN TRUE ELSE response[1].status_code = 429 /\ n429 < 2

\* utils.py:15, the loop condition
LoopAgain == IF response = <<>> THEN TRUE ELSE response[1].status_code = 429

\* the sleep ends and the loop goes round: utils.py:33 or 44-50, then 15-17
WakeRetry ==
    /\ Sleeping
    /\ LoopAgain
    /\ Post(post_json)
    /\ sleep_for' = 0
    /\ UNCHANGED <<post_json, response, total_queries, result, exc, calls, n429, answered,
                   rate_limits, callers, svars>>

\* the sleep ends and the loop is left: utils.py:52-59, the response is ok
WakeReturn ==
    /\ Sleeping
    /\ ~LoopAgain
    /\ ok(response[1])
    /\ total_queries' = total_queries + 1
    /\ result' = response[1].json.data
    /\ tpc' = "returned"
    /\ sleep_for' = 0
    /\ UNCHANGED <<post_json, response, exc, calls, n429, answered, in_flight,
                   rate_limits, callers, svars>>

\* the sleep ends and the loop is left: utils.py:52-57, raise_for_status raises
WakeRaise ==
    /\ Sleeping
    /\ ~LoopAgain
    /\ ~ok(response[1])
    /\ total_queries' = total_queries + 1
    /\ exc' = "HTTPError"
    /\ tpc' = "raised"
    /\ sleep_for' = 0
    /\ UNCHANGED <<post_json, response, result, calls, n429, answered, in_flight,
                   rate_limits, callers, svars>>

\* The caller takes the outcome of the call: the frame of safe_post_request is gone.
FrameGone ==
    /\ tpc' = "idle"
    /\ response' = <<>>
    /\ sleep_for' = 0
    /\ result' = Null
    /\ post_json' = NoRequest
    /\ n429' = 0
    /\ UNCHANGED <<total_queries, calls, in_flight, rate_limits, answered>>

InitTransport ==
    /\ tpc = "idle"
    /\ post_json = NoRequest
    /\ response = <<>>
    /\ sleep_for = 0
    /\ total_queries = 0
    /\ result = Null
    /\ exc = ""
    /\ in_flight = <<>>
    /\ calls = 0
    /\ n429 = 0
    /\ answered = 0

-----------------------------------------------------------------------------
(* depaginated_request, utils.py:66-99 *)

MAX_PAGE_SIZE == 50     \* utils.py:5

Failed(error) == [ok |-> FALSE, error |-> error, value |-> JNull]

\* utils.py:86-90: unwrap the returned JSON until pageInfo is seen
RECURSIVE Unwrap(_)
Unwrap(response_data) ==
    IF response_data.t \notin {"obj", "list"}
    THEN Failed("TypeError")                               \* 86: `in` on None
    ELSE IF response_data.t = "obj" /\ Has(response_data, "pageInfo")
    THEN [ok |-> TRUE, error |-> "", value |-> response_data]
    ELSE IF len(response_data) = 0
    THEN Failed("AssertionError")                          \* 87
    ELSE IF len(response_data) # 1
    THEN Failed("AssertionError")                          \* 88
    ELSE IF response_data.t = "list"
    THEN Failed("TypeError")                               \* 90: a list indexed by its element
    ELSE Unwrap(response_data.kv[1].v)                     \* 90

\* utils.py:94, next(v for k, v in response_data.items() if k != 'pageInfo')
NonPageInfo(response_data) ==
    response_data.kv[CHOOSE i \in 1..Len(response_data.kv) :
        /\ response_data.kv[i].k # "pageInfo"
        /\ \A j \in 1..(i - 1) : response_data.kv[j].k = "pageInfo"].v

\* what one page adds, had line 93 asserted `>= 2`
PageAtLeastTwo(response_data) ==
    LET u == Unwrap(response_data)
    IN  IF ~u.ok THEN [ok |-> FALSE, error |-> u.error, items |-> <<>>, more |-> FALSE]
        ELSE IF len(u.value) < 2
        THEN [ok |-> FALSE, error |-> "AssertionError", items |-> <<>>, more |-> FALSE]
        ELSE [ok |-> TRUE, error |-> "",
              items |-> NonPageInfo(u.value).items,
              more |-> Get(Get(u.value, "pageInfo"), "hasNextPage").b]

\* utils.py:86-96: what one page adds, or how it fails
Page(response_data) ==
    LET u == Unwrap(response_data)
    IN  IF ~u.ok THEN [ok |-> FALSE, error |-> u.error, items |-> <<>>, more |-> FALSE]
        ELSE IF len(u.value) # 2                                            \* 93
        THEN [ok |-> FALSE, error |-> "AssertionError", items |-> <<>>, more |-> FALSE]
        ELSE [ok |-> TRUE, error |-> "",
              items |-> NonPageInfo(u.value).items,                         \* 94
              more |-> Get(Get(u.value, "pageInfo"), "hasNextPage").b]      \* 96

\* utils.py:71-74, 80: {**variables, 'perPage': MAX_PAGE_SIZE} with ['page'] = page_num
Paginated(variables, n) ==
    [page |-> n] @@ ([perPage |-> MAX_PAGE_SIZE] @@ variables)

\* utils.py:71-81: the call runs up to the first await
DepaginateCall(q, variables) ==
    /\ query' = q
    /\ paginated_variables' = Paginated(variables, 1)
    /\ out_list' = <<>>
    /\ page_num' = 1
    /\ pages' = <<1>>
    /\ ppc' = "await81"
    /\ SafePostCall([query |-> q, variables |-> Paginated(variables, 1)])

\* utils.py:81 raises: the exception passes through depaginated_request
PageRaise ==
    /\ ppc = "await81"
    /\ tpc = "raised"
    /\ ppc' = "failed"
    /\ FrameGone
    /\ UNCHANGED <<exc, query, paginated_variables, page_num, out_list, pages, svars,
                   wvars, avars, mvars>>

\* utils.py:86-93: the shape of the page is not the expected one
PageFail ==
    /\ ppc = "await81"
    /\ tpc = "returned"
    /\ ~Page(result).ok
    /\ ppc' = "failed"
    /\ exc' = Page(result).error
    /\ FrameGone
    /\ UNCHANGED <<query, paginated_variables, page_num, out_list, pages, svars,
                   wvars, avars, mvars>>

\* the last page, had line 96 stood before line 94
PageReturnBeforeExtend ==
    /\ ppc = "await81"
    /\ tpc = "returned"
    /\ Page(result).ok
    /\ ~Page(result).more
    /\ ppc' = "returned"
    /\ FrameGone
    /\ UNCHANGED <<exc, query, paginated_variables, page_num, out_list, pages, svars,
                   wvars, avars, mvars>>

\* utils.py:86-97: the last page
PageReturn ==
    /\ ppc = "await81"
    /\ tpc = "returned"
    /\ Page(result).ok
    /\ ~Page(result).more
    /\ out_list' = out_list \o Page(result).items
    /\ ppc' = "returned"
    /\ FrameGone
    /\ UNCHANGED <<exc, query, paginated_variables, page_num, pages, svars,
                   wvars, avars, mvars>>

\* a page that has a next page, had line 99 been left out
PageNextSamePage ==
    /\ ppc = "await81"
    /\ tpc = "returned"
    /\ Page(result).ok
    /\ Page(result).more
    /\ out_list' = out_list \o Page(result).items
    /\ page_num' = page_num
    /\ paginated_variables' = [paginated_variables EXCEPT !.page = page_num]
    /\ pages' = Append(pages, page_num)
    /\ SafePostCall([query |-> query,
                     variables |-> [paginated_variables EXCEPT !.page = page_num]])
    /\ UNCHANGED <<ppc, query, svars, wvars, avars, mvars>>

\* utils.py:86-99, 80-81: a page that has a next page
PageNext ==
    /\ ppc = "await81"
    /\ tpc = "returned"
    /\ Page(result).ok
    /\ Page(result).more
    /\ out_list' = out_list \o Page(result).items
    /\ page_num' = page_num + 1
    /\ paginated_variables' = [paginated_variables EXCEPT !.page = page_num + 1]
    /\ pages' = Append(pages, page_num + 1)
    /\ SafePostCall([query |-> query,
                     variables |-> [paginated_variables EXCEPT !.page = page_num + 1]])
    /\ UNCHANGED <<ppc, query, svars, wvars, avars, mvars>>

NoSource == [items |-> <<>>, page_size |-> 1]

\* The caller takes the outcome of the call: the frame of depaginated_request is gone.
PageGone ==
    /\ ppc' = "idle"
    /\ query' = ""
    /\ paginated_variables' = <<>>
    /\ page_num' = 1
    /\ out_list' = <<>>
    /\ pages' = <<>>
    /\ source' = NoSource
    /\ UNCHANGED <<graph, known, edges_left, items_left, server>>

InitPages ==
    /\ ppc = "idle"
    /\ query = ""
    /\ paginated_variables = <<>>
    /\ page_num = 1
    /\ out_list = <<>>
    /\ pages = <<>>
    /\ source = NoSource

InitServer ==
    /\ graph = [n \in Ids |-> <<>>]
    /\ known = {}
    /\ items_left = [q \in PagedQueries |-> 0]

\* A server that gives every kind of answer
AnyServer ==
    [shapes |-> GoodShapes \cup BadShapes, headers |-> OtherHeaders,
     errors |-> {FALSE, TRUE}, page_sizes |-> 1..MaxServerPage,
     error_statuses |-> ErrorStatuses, error_errors |-> {FALSE, TRUE},
     rate_limit_headers |-> {NoHeaders} \cup RetryAfterHeaders,
     relation_types |-> RelationTypes, tag_lists |-> TagLists,
     user_media |-> Ids, season_media |-> Ids, related |-> Ids]

\* A server that gives every shape of page, and nothing else that varies
PageServer ==
    [shapes |-> GoodShapes \cup BadShapes, headers |-> {NoHeaders},
     errors |-> {FALSE}, page_sizes |-> 1..MaxServerPage,
     error_statuses |-> {500}, error_errors |-> {TRUE},
     rate_limit_headers |-> {NoHeaders},
     relation_types |-> RelationTypes, tag_lists |-> TagLists,
     user_media |-> {1, 2}, season_media |-> {1, 2}, related |-> Ids]

\* A server that gives every kind of relation edge, and nothing else that varies
WalkServer ==
    [shapes |-> GoodShapes, headers |-> {NoHeaders},
     errors |-> {FALSE}, page_sizes |-> {1},
     error_statuses |-> {500}, error_errors |-> {TRUE},
     rate_limit_headers |-> {NoHeaders},
     relation_types |-> RelationTypes, tag_lists |-> TagLists,
     user_media |-> Ids, season_media |-> Ids, related |-> Ids]

\* A server whose good answers are all of one kind
PlainServer ==
    [shapes |-> {"page", "empty"}, headers |-> {NoHeaders},
     errors |-> {FALSE}, page_sizes |-> {1},
     error_statuses |-> {500}, error_errors |-> {TRUE},
     rate_limit_headers |-> {NoHeaders},
     relation_types |-> {"SEQUEL"}, tag_lists |-> {<<>>},
     user_media |-> {1}, season_media |-> {2, 3}, related |-> {1, 2}]

InitMain ==
    /\ mpc = "idle"
    /\ user_id = 0
    /\ by_status = <<>>
    /\ cur_date = [year |-> 0, month |-> 1]
    /\ season_i = 0
    /\ shows = <<>>
    /\ show_n = 0
    /\ stdout = <<>>
    /\ verdicts = <<>>
    /\ listed = {}

-----------------------------------------------------------------------------
(* get_related_media, upcoming_sequels.py:83-131 *)

ChainedTypes == {"SEQUEL", "PREQUEL", "SOURCE", "ALTERNATIVE"}     \* upcoming_sequels.py:127

\* upcoming_sequels.py:128, any(tag['name'] == 'Crossover' for tag in show['tags'])
IsCrossover(show) == \E i \in 1..Len(show.tags) : show.tags[i].name = "Crossover"

\* the condition of the `continue`, had line 128 been left out
NotChainedByType(relation) == relation.relationType \notin ChainedTypes

\* upcoming_sequels.py:127-129, the condition of the `continue`
NotChained(relation) ==
    \/ relation.relationType \notin ChainedTypes
    \/ IsCrossover(relation.node)

\* upcoming_sequels.py:127-131, the frontier after `relation` has been dealt with
QueueAfter(q, relation) ==
    IF NotChained(relation) THEN q ELSE q \cup {relation.node.id}

\* upcoming_sequels.py:115-117: one ID leaves the frontier and its relations are asked for
Expand(cur) ==
    /\ cur_show_id' = cur
    /\ expanded' = Append(expanded, cur)
    /\ wpc' = "await116"
    /\ SafePostCall(relations_query(cur))

\* upcoming_sequels.py:112-117: the generator runs from its start to the first await
WalkCall(show) ==
    /\ show_id' = show
    /\ queue' = {show} \ {show}
    /\ related_show_ids' = {show}
    /\ relations' = <<>>
    /\ yielded' = <<>>
    /\ visited_by' = {}
    /\ cur_show_id' = show
    /\ expanded' = <<show>>
    /\ wpc' = "await116"
    /\ SafePostCall(relations_query(show))

\* upcoming_sequels.py:116-117 raises: the exception leaves the generator
WalkRaise ==
    /\ apc = "iterating"
    /\ wpc = "await116"
    /\ tpc = "raised"
    /\ wpc' = "failed"
    /\ FrameGone
    /\ UNCHANGED <<exc, show_id, queue, related_show_ids, cur_show_id, relations,
                   yielded, expanded, visited_by, avars, pvars, mvars, svars>>

\* upcoming_sequels.py:116-118: the relations arrive, the `for` loop starts
WalkRelations ==
    /\ apc = "iterating"
    /\ wpc = "await116"
    /\ tpc = "returned"
    /\ relations' = result.Media.relations.edges
    /\ wpc' = "for118"
    /\ FrameGone
    /\ UNCHANGED <<exc, show_id, queue, related_show_ids, cur_show_id,
                   yielded, expanded, visited_by, avars, pvars, mvars, svars>>

\* a relation whose node has been visited, had it been put in the frontier again
WalkSkipRequeue ==
    /\ apc = "iterating"
    /\ wpc = "for118"
    /\ relations # <<>>
    /\ Head(relations).node.id \in related_show_ids
    /\ queue' = QueueAfter(queue, Head(relations))
    /\ relations' = Tail(relations)
    /\ UNCHANGED <<wpc, show_id, related_show_ids, cur_show_id,
                   yielded, expanded, visited_by, avars, pvars, mvars, svars, tvars, nvars>>

\* upcoming_sequels.py:118-121: a relation whose node has been visited
WalkSkip ==
    /\ apc = "iterating"
    /\ wpc = "for118"
    /\ relations # <<>>
    /\ Head(relations).node.id \in related_show_ids
    /\ relations' = Tail(relations)
    /\ UNCHANGED <<wpc, show_id, queue, related_show_ids, cur_show_id,
                   yielded, expanded, visited_by, avars, pvars, mvars, svars, tvars, nvars>>

\* a relation dealt with as new, had line 121 been left out
WalkVisitUnchecked ==
    /\ apc = "iterating"
    /\ wpc = "for118"
    /\ relations # <<>>
    /\ LET relation == Head(relations)
           show == relation.node
       IN  /\ related_show_ids' = related_show_ids \cup {show.id}
           /\ visited_by' = visited_by \cup {relation}
           /\ IF show.id # show_id
              THEN /\ wpc' = "yield124"
                   /\ yielded' = Append(yielded, show.id)
                   /\ UNCHANGED <<queue, relations>>
              ELSE /\ queue' = QueueAfter(queue, relation)
                   /\ relations' = Tail(relations)
                   /\ UNCHANGED <<wpc, yielded>>
    /\ UNCHANGED <<show_id, cur_show_id, expanded, avars, pvars, mvars, svars, tvars,
                   nvars>>

\* upcoming_sequels.py:118-131: a relation whose node is new; the generator
\* stops at the yield unless the node is the start of the walk
WalkVisit ==
    /\ apc = "iterating"
    /\ wpc = "for118"
    /\ relations # <<>>
    /\ LET relation == Head(relations)
           show == relation.node
       IN  /\ show.id \notin related_show_ids
           /\ related_show_ids' = related_show_ids \cup {show.id}
           /\ visited_by' = visited_by \cup {relation}
           /\ IF show.id # show_id
              THEN /\ wpc' = "yield124"
                   /\ yielded' = Append(yielded, show.id)
                   /\ UNCHANGED <<queue, relations>>
              ELSE /\ queue' = QueueAfter(queue, relation)
                   /\ relations' = Tail(relations)
                   /\ UNCHANGED <<wpc, yielded>>
    /\ UNCHANGED <<show_id, cur_show_id, expanded, avars, pvars, mvars, svars, tvars,
                   nvars>>

\* upcoming_sequels.py:118, 114-117: the relations are used up, the frontier is not
WalkPop ==
    /\ apc = "iterating"
    /\ wpc = "for118"
    /\ relations = <<>>
    /\ \E cur \in queue :
        /\ queue' = queue \ {cur}
        /\ Expand(cur)
    /\ UNCHANGED <<show_id, related_show_ids, relations, yielded, visited_by,
                   avars, pvars, mvars, svars>>

\* the relations are used up, had the walk ended there whatever is left in the frontier
WalkEndEarly ==
    /\ apc = "iterating"
    /\ wpc = "for118"
    /\ relations = <<>>
    /\ wpc' = "exhausted"
    /\ UNCHANGED <<show_id, queue, related_show_ids, cur_show_id, relations,
                   yielded, expanded, visited_by, avars, pvars, mvars, svars, tvars, nvars>>

\* upcoming_sequels.py:118, 114: the relations and the frontier are used up
WalkEnd ==
    /\ apc = "iterating"
    /\ wpc = "for118"
    /\ relations = <<>>
    /\ queue = {}
    /\ wpc' = "exhausted"
    /\ UNCHANGED <<show_id, queue, related_show_ids, cur_show_id, relations,
                   yielded, expanded, visited_by, avars, pvars, mvars, svars, tvars, nvars>>

\* The caller takes the outcome of async_any: its frame and the generator are gone.
MatchGone ==
    /\ apc' = "idle"
    /\ consumed' = 0
    /\ wpc' = "idle"
    /\ show_id' = 1
    /\ queue' = {}
    /\ related_show_ids' = {}
    /\ cur_show_id' = 1
    /\ relations' = <<>>
    /\ yielded' = <<>>
    /\ expanded' = <<>>
    /\ visited_by' = {}

InitWalk ==
    /\ wpc = "idle"
    /\ show_id = 1
    /\ queue = {}
    /\ related_show_ids = {}
    /\ cur_show_id = 1
    /\ relations = <<>>
    /\ yielded = <<>>
    /\ expanded = <<>>
    /\ visited_by = {}
    /\ apc = "idle"
    /\ user_media_ids = {}
    /\ any_result = FALSE
    /\ consumed = 0

-----------------------------------------------------------------------------
(* async_any over (related_media['id'] in user_media_ids async for            *)
(* related_media in get_related_media(show['id'])),                           *)
(* utils.py:113-119 and upcoming_sequels.py:169                               *)

\* upcoming_sequels.py:169, the element of the generator expression
thing(related_media) == related_media.id \in user_media_ids

\* utils.py:115: the first item is asked for, the walk starts
AnyCall(show) ==
    /\ apc' = "iterating"
    /\ consumed' = 0
    /\ WalkCall(show)

\* the walk has yielded a media of the user's, had async_any noted it and gone on
\* to the end of the walk
AnyTrueDrain ==
    /\ apc = "iterating"
    /\ wpc = "yield124"
    /\ thing(Head(relations).node)
    /\ consumed' = consumed + 1
    /\ any_result' = TRUE
    /\ queue' = QueueAfter(queue, Head(relations))
    /\ relations' = Tail(relations)
    /\ wpc' = "for118"
    /\ UNCHANGED <<apc, user_media_ids, show_id, related_show_ids,
                   cur_show_id, yielded, expanded, visited_by, pvars, mvars, svars,
                   tvars, nvars>>

\* utils.py:115-117: the walk has yielded a media of the user's, async_any returns
AnyTrue ==
    /\ apc = "iterating"
    /\ wpc = "yield124"
    /\ thing(Head(relations).node)
    /\ consumed' = consumed + 1
    /\ any_result' = TRUE
    /\ apc' = "returned"
    /\ UNCHANGED <<user_media_ids, wvars, pvars, mvars, svars, tvars, nvars>>

\* utils.py:115-116, upcoming_sequels.py:127-131: the walk has yielded another
\* media, the next item is asked for and the generator goes on after its yield
AnyNext ==
    /\ apc = "iterating"
    /\ wpc = "yield124"
    /\ ~thing(Head(relations).node)
    /\ consumed' = consumed + 1
    /\ queue' = QueueAfter(queue, Head(relations))
    /\ relations' = Tail(relations)
    /\ wpc' = "for118"
    /\ UNCHANGED <<apc, user_media_ids, any_result, show_id, related_show_ids,
                   cur_show_id, yielded, expanded, visited_by, pvars, mvars, svars,
                   tvars, nvars>>

\* utils.py:115, 119: the walk is over
AnyFalse ==
    /\ apc = "iterating"
    /\ wpc = "exhausted"
    /\ any_result' = FALSE
    /\ apc' = "returned"
    /\ UNCHANGED <<user_media_ids, consumed, wvars, pvars, mvars, svars, tvars, nvars>>

\* utils.py:115: the walk raised
AnyRaise ==
    /\ apc = "iterating"
    /\ wpc = "failed"
    /\ apc' = "raised"
    /\ UNCHANGED <<user_media_ids, any_result, consumed, wvars, pvars, mvars, svars, tvars,
                   nvars>>

-----------------------------------------------------------------------------
(* get_user_id_by_name, upcoming_sequels.py:10-19, called on its own *)

\* upcoming_sequels.py:19, up to the await
UserIdCall ==
    /\ tpc = "idle"
    /\ calls < MaxCalls
    /\ \E u \in Usernames : SafePostCall(query_user_id(u))
    /\ UNCHANGED <<callers, svars>>

\* upcoming_sequels.py:19, after the await: (...)['User']['id'], or the exception passes
UserIdDone ==
    /\ tpc \in {"returned", "raised"}
    /\ FrameGone
    /\ UNCHANGED <<exc, callers, svars>>

InitPost ==
    InitTransport /\ InitPages /\ InitServer /\ InitWalk /\ InitMain
    /\ rate_limits = MaxRateLimited /\ edges_left = 0 /\ server = AnyServer

NextPost ==
    \/ UserIdCall
    \/ UserIdDone
    \/ RecvOk
    \/ RecvError
    \/ RecvRateLimited
    \/ RecvJsException
    \/ RecvException
    \/ WakeRetry
    \/ WakeReturn
    \/ WakeRaise

SpecPost == InitPost /\ [][NextPost]_vars

-----------------------------------------------------------------------------
(* Properties of safe_post_request, checked under SpecPost *)

Ended == tpc \in {"returned", "raised"}
Answered == response # <<>>
Is429 == IF Answered THEN response[1].status_code = 429 ELSE FALSE
IsErrorStatus ==
    IF Answered THEN response[1].status_code \in 400..599 \ {429} ELSE FALSE
HasErrors == IF Answered THEN "errors" \in DOMAIN response[1].json ELSE FALSE
HasRetryAfter == IF Answered THEN HasHeader(response[1], "Retry-After") ELSE FALSE
\* the last response is being slept on
SleepingOnResponse == tpc \in {"sleep44", "sleep50"}
Reissued == tpc' = "post17" /\ in_flight' = <<post_json>> /\ post_json' = post_json

\* C5: a step changes total_queries only when it ends a call on a response that is
\* not a 429, and then by exactly one; receiving a 429, sleeping on it, retrying
\* after it and ending a call on an exception of requests.post leave it alone.
C5_CountedOncePerCall ==
    [][total_queries' =
         total_queries + (IF ~Ended /\ Ended' /\ Answered' /\ ~Is429' THEN 1 ELSE 0)]_vars

\* a first call has returned after two 429 answers and the counter is one
C5_Witness ==
    /\ tpc = "returned"
    /\ n429 = 2
    /\ calls = 1
    /\ total_queries = 1

C7_RateLimitNeverSurfaced ==
    [][/\ (SleepingOnResponse /\ Is429) => Reissued
       /\ (tpc' = "returned") => Answered' /\ ~Is429'
       /\ (tpc' = "raised" /\ exc' = "HTTPError") => Answered' /\ ~Is429']_vars

\* a call has returned data after as many 429 answers as the server gives, the last
\* of them without the header
C7_Witness ==
    /\ tpc = "returned"
    /\ n429 = MaxRateLimited
    /\ rate_limits = 0
    /\ ~HasRetryAfter

-----------------------------------------------------------------------------
(* get_user_media and get_season_shows, upcoming_sequels.py:22-66, called on *)
(* their own                                                                 *)

Seasons == <<"WINTER", "SPRING", "SUMMER", "FALL">>     \* upcoming_sequels.py:158

\* upcoming_sequels.py:45-46, up to the await; the server holds some list for the user
UserMediaCall ==
    /\ ppc = "idle"
    /\ \E uid \in UserIds, status \in {Statuses[1]}, src \in Sources(user_media_query, MaxItems) :
        /\ source' = src
        /\ UNCHANGED <<graph, known, edges_left, items_left, server, wvars, avars, mvars>>
        /\ DepaginateCall(user_media_query, [userId |-> uid, status |-> status])

\* upcoming_sequels.py:66, up to the await; the server holds some list for the season
SeasonShowsCall ==
    /\ ppc = "idle"
    /\ \E season \in {Seasons[1]}, season_year \in {2024},
          src \in Sources(season_shows_query, MaxItems) :
        /\ source' = src
        /\ UNCHANGED <<graph, known, edges_left, items_left, server, wvars, avars, mvars>>
        /\ DepaginateCall(season_shows_query,
                          [season |-> season, seasonYear |-> season_year])

InitPage ==
    InitTransport /\ InitPages /\ InitServer /\ InitWalk /\ InitMain
    /\ rate_limits = MaxRateLimitedPage /\ edges_left = 0 /\ server = PageServer

NextPage ==
    \/ UserMediaCall
    \/ SeasonShowsCall
    \/ PageRaise
    \/ PageFail
    \/ PageReturn
    \/ PageNext
    \/ RecvOk
    \/ RecvError
    \/ RecvRateLimited
    \/ RecvJsException
    \/ RecvException
    \/ WakeRetry
    \/ WakeReturn
    \/ WakeRaise

SpecPage == InitPage /\ [][NextPage]_vars

-----------------------------------------------------------------------------
(* Properties of depaginated_request, checked under SpecPage *)

\* the N items of the source as the query returns them, and the size P of its pages
ServerItems == [i \in 1..Len(source.items) |-> Item(query, source.items[i])]
ServedPageSize == Min(MAX_PAGE_SIZE, source.page_size)
CeilDiv(n, p) == (n + p - 1) \div p
Max(a, b) == IF a > b THEN a ELSE b
UpTo(n) == [i \in 1..n |-> i]

\* C1 as stated: depaginated_request returns the N items of the source in the
\* server's order after exactly ceil(N/P) page requests, for every N >= 0.
C1_Original ==
    ppc = "returned"
        => /\ out_list = ServerItems
           /\ pages = UpTo(CeilDiv(Len(source.items), ServedPageSize))

\* C1 amended: depaginated_request returns the N items of the source in the
\* server's order after requesting the pages 1, 2, ... up to ceil(N/P), and one
\* page when N = 0: exactly max(1, ceil(N/P)) page requests.
C1_Depaginated ==
    ppc = "returned"
        => /\ out_list = ServerItems
           /\ pages = UpTo(Max(1, CeilDiv(Len(source.items), ServedPageSize)))

\* three items, not all the same, have been returned from pages of two
C1_Witness ==
    /\ ppc = "returned"
    /\ Len(source.items) = 3
    /\ source.items[1] # source.items[3]
    /\ source.page_size = 2
    /\ pages = <<1, 2>>
    /\ Len(out_list) = 3

\* the page just returned to depaginated_request has one of the shapes that lack
\* pageInfo after unwrapping or hold it in an object that has not exactly two keys
MalformedPage ==
    /\ ppc = "await81"
    /\ tpc = "returned"
    /\ result \in PageData(post_json, BadShapes)

\* C8: on a malformed page depaginated_request raises in its next step, whatever
\* the earlier pages have brought: its caller gets the exception, not a list, no
\* request is made or in flight, and no call returns a list on such a page.
C8_MalformedPageFails ==
    [][/\ MalformedPage
            => /\ ppc' = "failed"
               /\ exc' \in {"AssertionError", "TypeError"}
               /\ calls' = calls
               /\ in_flight' = <<>>
       /\ (ppc' = "failed") => tpc' = "idle" /\ in_flight' = <<>>
       /\ (ppc' = "returned") => ~MalformedPage]_vars

\* the second page was malformed: the call has failed with the first page's item
\* in its out_list
C8_Witness ==
    /\ ppc = "failed"
    /\ exc = "AssertionError"
    /\ pages = <<1, 2>>
    /\ out_list # <<>>

-----------------------------------------------------------------------------
(* The matcher of upcoming_sequels.py:169, called on its own: one seasonal   *)
(* show against one set of the user's media IDs                              *)

UserSets == SUBSET Ids
\* the media IDs are interchangeable: the walks start from one of them
Roots == {1}

\* upcoming_sequels.py:169, up to the first await
MatchCall ==
    /\ apc = "idle"
    /\ \E show \in Roots, ids \in UserSets :
        /\ user_media_ids' = ids
        /\ any_result' = FALSE
        /\ AnyCall(show)
    /\ UNCHANGED <<pvars, mvars, svars>>

InitWalks ==
    InitTransport /\ InitPages /\ InitServer /\ InitWalk /\ InitMain
    /\ rate_limits = MaxRateLimitedWalk /\ edges_left = MaxEdges /\ server = WalkServer

NextWalk ==
    \/ MatchCall
    \/ AnyTrue
    \/ AnyNext
    \/ AnyFalse
    \/ AnyRaise
    \/ WalkRaise
    \/ WalkRelations
    \/ WalkSkip
    \/ WalkVisit
    \/ WalkPop
    \/ WalkEnd
    \/ RecvOk
    \/ RecvError
    \/ RecvRateLimited
    \/ RecvJsException
    \/ RecvException
    \/ WakeRetry
    \/ WakeReturn
    \/ WakeRaise

SpecWalk == InitWalks /\ [][NextWalk]_vars

-----------------------------------------------------------------------------
(* Properties of get_related_media and of the matcher, checked under SpecWalk *)

Range(seq) == {seq[i] : i \in 1..Len(seq)}
EdgesOf(n) == Range(graph[n])

\* C2: the IDs a walk has yielded so far are all different and none is the ID the
\* walk started from.
C2_NoRepeatNoRoot ==
    /\ \A i, j \in 1..Len(yielded) : yielded[i] = yielded[j] => i = j
    /\ \A i \in 1..Len(yielded) : yielded[i] # show_id

\* a walk has ended on a cycle: a yielded media was expanded and an edge of it
\* leads back to the start
C2_Witness ==
    /\ wpc = "exhausted"
    /\ \E n \in Range(yielded) :
        /\ n \in Range(expanded)
        /\ \E e \in EdgesOf(n) : e.node.id = show_id

\* the edge through which the walk first visited n is one the walk chains through
FirstVisitChained(n) ==
    \E e \in visited_by :
        /\ e.node.id = n
        /\ e.relationType \in {"SEQUEL", "PREQUEL", "SOURCE", "ALTERNATIVE"}
        /\ \A i \in 1..Len(e.node.tags) : e.node.tags[i].name # "Crossover"

MatchSeen ==
    /\ apc = "iterating"
    /\ wpc = "yield124"
    /\ yielded[Len(yielded)] \in user_media_ids

\* C4: the step after the walk has yielded a media of the user's is the return of
\* async_any with True, having taken no yield after that one; the walk is left
\* suspended at its yield, with nothing expanded since and no request made or in
\* flight.
C4_ShortCircuit ==
    [][/\ MatchSeen
            => /\ apc' = "returned"
               /\ any_result' = TRUE
               /\ consumed' = Len(yielded)
               /\ yielded' = yielded /\ expanded' = expanded
               /\ calls' = calls /\ in_flight' = <<>>
       /\ (apc' = "returned" /\ any_result')
            => wpc' = "yield124" /\ tpc' = "idle" /\ in_flight' = <<>>]_vars

\* async_any has returned True on the second yield, with a media in the frontier
\* whose relations have not been asked for
C4_Witness ==
    /\ apc = "returned"
    /\ any_result
    /\ Len(yielded) = 2
    /\ queue # {}
    /\ expanded = <<show_id>>

-----------------------------------------------------------------------------
(* main, upcoming_sequels.py:134-173 *)

NumSeasons == 4     \* upcoming_sequels.py:156

Dates == {[year |-> 2024, month |-> 11]}

\* upcoming_sequels.py:157-159
SeasonOf(date, i) ==
    LET season_idx == (date.month \div 3) + i
    IN  [season |-> Seasons[(season_idx % 4) + 1], year |-> date.year + (season_idx \div 4)]


\* upcoming_sequels.py:145-147, up to the await
MainCall ==
    /\ mpc = "idle"
    /\ tpc = "idle"
    /\ mpc' = "await147"
    /\ \E username \in Usernames : SafePostCall(query_user_id(username))
    /\ UNCHANGED <<user_id, by_status, cur_date, season_i, shows, show_n, stdout, verdicts, listed,
                   pvars, wvars, avars, svars>>

\* upcoming_sequels.py:147, 19: the user's ID is there
MainUserId ==
    /\ mpc = "await147"
    /\ tpc = "returned"
    /\ user_id' = result.User.id
    /\ by_status' = <<>>
    /\ mpc' = "for150"
    /\ FrameGone
    /\ UNCHANGED <<exc, cur_date, season_i, shows, show_n, stdout, verdicts, listed,
                   pvars, wvars, avars, svars>>

\* upcoming_sequels.py:150-151, 45-46: the list of the next status is asked for
MainStatus ==
    /\ mpc = "for150"
    /\ Len(by_status) < Len(Statuses)
    /\ mpc' = "await150"
    /\ \E src \in Sources(user_media_query, items_left[user_media_query]) :
        /\ source' = src
        /\ items_left' = [items_left EXCEPT ![user_media_query] = @ - Len(src.items)]
        /\ listed' = listed \cup {src.items[k] : k \in 1..Len(src.items)}
    /\ DepaginateCall(user_media_query,
                      [userId |-> user_id, status |-> Statuses[Len(by_status) + 1]])
    /\ UNCHANGED <<user_id, by_status, cur_date, season_i, shows, show_n, stdout, verdicts,
                   wvars, avars, graph, known, edges_left, server>>

\* upcoming_sequels.py:150, 45: the list of a status is there
MainUserMedia ==
    /\ mpc = "await150"
    /\ ppc = "returned"
    /\ by_status' = Append(by_status, {out_list[k].media.id : k \in 1..Len(out_list)})
    /\ mpc' = "for150"
    /\ PageGone
    /\ UNCHANGED <<user_id, cur_date, season_i, shows, show_n, stdout, verdicts, listed,
                   tvars, nvars, wvars, avars>>

\* the lists of all the statuses are there, had line 152 taken the first only
MainUnionCompleted ==
    /\ mpc = "for150"
    /\ Len(by_status) = Len(Statuses)
    /\ user_media_ids' = by_status[1]
    /\ by_status' = <<>>
    /\ \E date \in Dates : cur_date' = date
    /\ season_i' = 0
    /\ mpc' = "for156"
    /\ UNCHANGED <<user_id, shows, show_n, stdout, verdicts, listed,
                   apc, any_result, consumed, tvars, nvars, pvars, wvars, svars>>

\* upcoming_sequels.py:152-155: the lists of all the statuses are there
\* (user_media_ids_by_status is not read again)
MainUnion ==
    /\ mpc = "for150"
    /\ Len(by_status) = Len(Statuses)
    /\ user_media_ids' = UNION {by_status[k] : k \in 1..Len(by_status)}
    /\ by_status' = <<>>
    /\ \E date \in Dates : cur_date' = date
    /\ season_i' = 0
    /\ mpc' = "for156"
    /\ UNCHANGED <<user_id, shows, show_n, stdout, verdicts, listed,
                   apc, any_result, consumed, tvars, nvars, pvars, wvars, svars>>

\* upcoming_sequels.py:156-167, 66: the header of a season is printed and its shows
\* are asked for
MainSeason ==
    /\ mpc = "for156"
    /\ season_i < NumSeasons
    /\ stdout' = stdout \o (IF season_i # 0 THEN <<[line |-> "empty"]>> ELSE <<>>)
                        \o <<[line |-> "season", of |-> SeasonOf(cur_date, season_i)],
                             [line |-> "rule"]>>
    /\ mpc' = "await167"
    /\ \E src \in Sources(season_shows_query, items_left[season_shows_query]) :
        /\ source' = src
        /\ items_left' = [items_left EXCEPT ![season_shows_query] = @ - Len(src.items)]
    /\ DepaginateCall(season_shows_query,
                      [season |-> SeasonOf(cur_date, season_i).season,
                       seasonYear |-> SeasonOf(cur_date, season_i).year])
    /\ UNCHANGED <<user_id, by_status, cur_date, season_i, shows, show_n, verdicts, listed,
                   wvars, avars, graph, known, edges_left, server>>

\* upcoming_sequels.py:167: the shows of the season are there
MainSeasonShows ==
    /\ mpc = "await167"
    /\ ppc = "returned"
    /\ shows' = out_list
    /\ show_n' = 0
    /\ verdicts' = <<>>
    /\ mpc' = "for167"
    /\ PageGone
    /\ UNCHANGED <<user_id, by_status, cur_date, season_i, stdout, listed,
                   tvars, nvars, wvars, avars>>

\* upcoming_sequels.py:167-169: the next show of the season is matched
MainShow ==
    /\ mpc = "for167"
    /\ show_n < Len(shows)
    /\ mpc' = "await169"
    /\ any_result' = FALSE
    /\ AnyCall(shows[show_n + 1].id)
    /\ UNCHANGED <<user_id, by_status, cur_date, season_i, shows, show_n, stdout, verdicts, listed,
                   user_media_ids, pvars, svars>>

\* upcoming_sequels.py:169-170: async_any has returned, the title is printed or not
MainShowDone ==
    /\ mpc = "await169"
    /\ apc = "returned"
    /\ LET show == shows[show_n + 1]
       IN  stdout' = IF any_result
                     THEN Append(stdout, [line |-> "title",
                                          of |-> None_or(show.title.english,
                                                         show.title.romaji)])
                     ELSE stdout
    /\ verdicts' = Append(verdicts,
                          [matched |-> \E k \in 1..Len(yielded) : yielded[k] \in listed,
                           ended |-> wpc = "exhausted"])
    /\ show_n' = show_n + 1
    /\ mpc' = "for167"
    /\ any_result' = FALSE
    /\ MatchGone
    /\ UNCHANGED <<user_id, by_status, cur_date, season_i, shows, user_media_ids, listed,
                   tvars, nvars, pvars, svars>>

\* upcoming_sequels.py:167, 156: the shows of the season are used up
MainSeasonEnd ==
    /\ mpc = "for167"
    /\ show_n = Len(shows)
    /\ season_i' = season_i + 1
    /\ shows' = <<>>
    /\ show_n' = 0
    /\ verdicts' = <<>>
    /\ mpc' = "for156"
    /\ UNCHANGED <<user_id, by_status, cur_date, stdout, listed,
                   tvars, nvars, pvars, wvars, avars, svars>>

\* upcoming_sequels.py:172-173: the seasons are used up
MainEnd ==
    /\ mpc = "for156"
    /\ season_i = NumSeasons
    /\ stdout' = Append(stdout, [line |-> "total", of |-> total_queries])
    /\ total_queries' = 0
    /\ mpc' = "done"
    /\ UNCHANGED <<user_id, by_status, cur_date, season_i, shows, show_n, verdicts, listed,
                   tpc, post_json, response, sleep_for, result, exc, calls, n429, answered,
                   nvars, pvars, wvars, avars, svars>>

\* upcoming_sequels.py:147: get_user_id_by_name raised
MainAbortUserId ==
    /\ mpc = "await147"
    /\ tpc = "raised"
    /\ mpc' = "aborted"
    /\ FrameGone
    /\ UNCHANGED <<exc, user_id, by_status, cur_date, season_i, shows, show_n, stdout,
                   verdicts, listed, pvars, wvars, avars, svars>>

\* upcoming_sequels.py:150, 167: get_user_media or get_season_shows raised
MainAbortList ==
    /\ mpc \in {"await150", "await167"}
    /\ ppc = "failed"
    /\ mpc' = "aborted"
    /\ PageGone
    /\ UNCHANGED <<user_id, by_status, cur_date, season_i, shows, show_n, stdout, verdicts, listed,
                   tvars, nvars, wvars, avars>>

\* upcoming_sequels.py:169: async_any raised
MainAbortMatch ==
    /\ mpc = "await169"
    /\ apc = "raised"
    /\ mpc' = "aborted"
    /\ MatchGone
    /\ UNCHANGED <<user_id, by_status, cur_date, season_i, shows, show_n, stdout, verdicts, listed,
                   user_media_ids, any_result, tvars, nvars, pvars, svars>>

InitMains ==
    InitTransport /\ InitPages /\ InitWalk /\ InitMain
    /\ graph = [n \in Ids |-> <<>>] /\ known = {}
    /\ rate_limits = MaxRateLimitedMain /\ edges_left = MaxEdgesMain
    /\ items_left = [q \in PagedQueries |->
                        IF q = user_media_query THEN MaxUserItemsMain ELSE MaxShowsMain]
    /\ server = PlainServer

NextMain ==
    \/ MainCall
    \/ MainUserId
    \/ MainStatus
    \/ MainUserMedia
    \/ MainUnion
    \/ MainSeason
    \/ MainSeasonShows
    \/ MainShow
    \/ MainShowDone
    \/ MainSeasonEnd
    \/ MainEnd
    \/ MainAbortUserId
    \/ MainAbortList
    \/ MainAbortMatch
    \/ PageRaise
    \/ PageFail
    \/ PageReturn
    \/ PageNext
    \/ AnyTrue
    \/ AnyNext
    \/ AnyFalse
    \/ AnyRaise
    \/ WalkRaise
    \/ WalkRelations
    \/ WalkSkip
    \/ WalkVisit
    \/ WalkPop
    \/ WalkEnd
    \/ RecvOk
    \/ RecvError
    \/ RecvRateLimited
    \/ RecvJsException
    \/ RecvException
    \/ WakeRetry
    \/ WakeReturn
    \/ WakeRaise

SpecMain == InitMains /\ [][NextMain]_vars


-----------------------------------------------------------------------------
(* Properties of main, checked under SpecMain *)

\* the lines printed since the rule under the header of the season in progress
RECURSIVE SinceRule(_)
SinceRule(lines) ==
    IF lines = <<>> THEN <<>>
    ELSE IF lines[Len(lines)].line = "rule" THEN <<>>
    ELSE Append(SinceRule(SubSeq(lines, 1, Len(lines) - 1)), lines[Len(lines)])

\* the title main prints for a show: the English one, the romaji one if there is none
PrintedTitle(show) ==
    IF show.title.english = None THEN show.title.romaji ELSE show.title.english

\* the title lines of the first k shows of the season whose walk yielded a media
\* that is in one of the user's lists
RECURSIVE TitlesDue(_)
TitlesDue(k) ==
    IF k = 0 THEN <<>>
    ELSE TitlesDue(k - 1)
         \o (IF verdicts[k].matched
             THEN <<[line |-> "title", of |-> PrintedTitle(shows[k])]>>
             ELSE <<>>)

InSeason == mpc \in {"for167", "await169"}

-----------------------------------------------------------------------------
(* The matcher of upcoming_sequels.py:169 called twice for the same show, on *)
(* a server whose relation graph is whole from the start and does not change *)

MaxGraphId == 5
GraphIds == 1..MaxGraphId

\* the pairs of media the server may relate: a media and one of the next two
Links == {l \in GraphIds \X GraphIds : l[1] < l[2] /\ l[2] <= l[1] + 2}

\* the edge from n to m in the server's answer, if the server relates them
EdgeTo(types, n, m) ==
    IF <<n, m>> \in Links
    THEN IF types[<<n, m>>] \in RelationTypes
         THEN <<[relationType |-> types[<<n, m>>], node |-> [id |-> m, tags |-> <<>>]]>>
         ELSE <<>>
    ELSE <<>>

\* the relation graphs: each pair is unrelated or related by one type of edge
Graphs ==
    {[n \in GraphIds |-> EdgeTo(types, n, n + 1) \o EdgeTo(types, n, n + 2)] :
        types \in [Links -> RelationTypes \cup {None}]}

\* the user has no media, or the last one of the graph
GraphUserSets == {{}, {MaxGraphId}}

\* upcoming_sequels.py:169, up to the first await; the second call is made with
\* the user's media of the first
GraphShowCall ==
    /\ apc = "idle"
    /\ Len(verdicts) < 2
    /\ \E ids \in (IF verdicts = <<>> THEN GraphUserSets ELSE {user_media_ids}) :
        user_media_ids' = ids
    /\ any_result' = FALSE
    /\ AnyCall(1)
    /\ UNCHANGED <<pvars, mvars, svars>>

\* upcoming_sequels.py:169, after the await: what async_any returned and what the
\* walk had yielded by then are noted
GraphShowDone ==
    /\ apc = "returned"
    /\ verdicts' = Append(verdicts,
                          [matched |-> any_result,
                           ended |-> wpc = "exhausted",
                           yielded |-> {yielded[k] : k \in 1..Len(yielded)}])
    /\ MatchGone
    /\ UNCHANGED <<user_media_ids, any_result, mpc, user_id, by_status, cur_date,
                   season_i, shows, show_n, stdout, listed, tvars, nvars, pvars, svars>>

InitGraph ==
    InitTransport /\ InitPages /\ InitWalk /\ InitMain
    /\ graph \in Graphs /\ known = GraphIds
    /\ items_left = [q \in PagedQueries |-> 0]
    /\ rate_limits = 0 /\ edges_left = 0 /\ server = WalkServer

NextGraph ==
    \/ GraphShowCall
    \/ GraphShowDone
    \/ AnyTrue
    \/ AnyNext
    \/ AnyFalse
    \/ WalkRelations
    \/ WalkSkip
    \/ WalkVisit
    \/ WalkPop
    \/ WalkEnd
    \/ RecvOk
    \/ WakeReturn

SpecGraph == InitGraph /\ [][NextGraph]_vars

-----------------------------------------------------------------------------
(* Properties of get_related_media on a whole graph, checked under SpecGraph *)

\* an edge a chained path may go through
ChainedEdge(e) ==
    /\ e.relationType \in {"SEQUEL", "PREQUEL", "SOURCE", "ALTERNATIVE"}
    /\ \A i \in 1..Len(e.node.tags) : e.node.tags[i].name # "Crossover"

\* the media reachable from those of S by chained paths
RECURSIVE ChainReach(_)
ChainReach(S) ==
    LET T == S \cup {e.node.id : e \in {e \in UNION {EdgesOf(n) : n \in S} : ChainedEdge(e)}}
    IN  IF T = S THEN S ELSE ChainReach(T)

\* C11: a walk that has run to its end has yielded every media, other than its
\* start, that a chained path leads to from its start.
C11_ChainedAllYielded ==
    (apc = "iterating" /\ wpc = "exhausted")
        => (ChainReach({show_id}) \ {show_id}) \subseteq Range(yielded)

\* C12: two walks from the same start on the same graph that have both run to
\* their end have yielded the same set of IDs, whatever the order in which each took
\* the IDs out of its frontier, and the matcher has returned the same for both.
C12_OrderIndependent ==
    Len(verdicts) = 2
        => /\ verdicts[1].matched = verdicts[2].matched
           /\ (verdicts[1].ended /\ verdicts[2].ended)
                => verdicts[1].yielded = verdicts[2].yielded

-----------------------------------------------------------------------------
(* The visited set and the frontier of get_related_media, checked under SpecWalk *)

\* the walk has put n in its frontier in the step that resumed it after the yield of
\* n, the yield of the first visit of n
QueuedOnFirstVisit(n) ==
    /\ wpc = "yield124"
    /\ n = yielded[Len(yielded)]
    /\ n = Head(relations).node.id
    /\ n \notin Range(expanded)

\* C13: in every step of a walk the visited set keeps its IDs and holds
\* every ID of the frontier; an ID enters the frontier only in the step that
\* follows the yield of its first visit; no ID, the start included, has had its
\* relations asked for twice.
C13_VisitedGrows ==
    [][wpc' # "idle"
        => /\ (wpc # "idle" => related_show_ids \subseteq related_show_ids')
           /\ queue' \subseteq related_show_ids'
           /\ \A n \in queue' \ queue : QueuedOnFirstVisit(n)
           /\ \A i, j \in 1..Len(expanded') : expanded'[i] = expanded'[j] => i = j]_vars

\* a walk has ended having expanded a media with a chained edge that leads back to
\* a media expanded before it
C13_Witness ==
    /\ wpc = "exhausted"
    /\ \E i, j \in 1..Len(expanded) :
        /\ j <= i
        /\ \E e \in EdgesOf(expanded[i]) : e.node.id = expanded[j] /\ ChainedEdge(e)

-----------------------------------------------------------------------------
(* get_related_media consumed to its end: the matcher of                     *)
(* upcoming_sequels.py:169 for a user who has no media. Every step that can  *)
(* be taken is taken in the end: the event loop resumes what is ready, a     *)
(* sleep elapses, the server answers.                                        *)

\* upcoming_sequels.py:169, up to the first await
DrainCall ==
    /\ apc = "idle"
    /\ \E show \in Roots :
        /\ user_media_ids' = {}
        /\ any_result' = FALSE
        /\ AnyCall(show)
    /\ UNCHANGED <<pvars, mvars, svars>>

NextDrain ==
    \/ DrainCall
    \/ AnyNext
    \/ AnyFalse
    \/ AnyRaise
    \/ WalkRaise
    \/ WalkRelations
    \/ WalkSkip
    \/ WalkVisit
    \/ WalkPop
    \/ WalkEnd
    \/ RecvOk
    \/ RecvError
    \/ RecvRateLimited
    \/ RecvJsException
    \/ RecvException
    \/ WakeRetry
    \/ WakeReturn
    \/ WakeRaise

\* A server that relates the start of the walk and one more media, untagged, by
\* every type of edge and in every direction
DrainServer ==
    [shapes |-> GoodShapes, headers |-> {NoHeaders},
     errors |-> {FALSE}, page_sizes |-> {1},
     error_statuses |-> {500}, error_errors |-> {TRUE},
     rate_limit_headers |-> {NoHeaders},
     relation_types |-> RelationTypes, tag_lists |-> {<<>>},
     user_media |-> {1}, season_media |-> {1}, related |-> {1, 2}]

InitDrain ==
    InitTransport /\ InitPages /\ InitServer /\ InitWalk /\ InitMain
    /\ rate_limits = MaxRateLimitedWalk /\ edges_left = MaxEdges /\ server = DrainServer

SpecDrain == InitDrain /\ [][NextDrain]_vars /\ WF_vars(NextDrain)

\* C14: a walk that is consumed to its end comes to its end with an empty frontier,
\* unless one of its relation queries raises.
C14_WalkTerminates ==
    (apc = "iterating")
        ~> \/ wpc = "exhausted" /\ queue = {} /\ relations = <<>>
           \/ wpc = "failed"

\* a walk has ended on a graph with a cycle through its start, every edge of which
\* it chains through
C14_Witness ==
    /\ wpc = "exhausted"
    /\ queue = {}
    /\ Len(expanded) = 2
    /\ \E e \in EdgesOf(expanded[1]) : e.node.id = expanded[2] /\ ChainedEdge(e)
    /\ \E e \in EdgesOf(expanded[2]) : e.node.id = expanded[1] /\ ChainedEdge(e)

-----------------------------------------------------------------------------
(* More properties of safe_post_request, checked under SpecPost *)

\* C15: whenever the call sleeps, a rate limit has been met (the last response is a
\* 429, or requests.post raised in place of one) and the step that ends the sleep
\* issues the same request again.
C15_SleepIsBackoff ==
    [][Sleeping => /\ (Answered => Is429)
                   /\ Reissued]_vars

-----------------------------------------------------------------------------
(* The requests of depaginated_request, checked under SpecPage *)

\* the keys of the variables the callers pass: upcoming_sequels.py:45-46 and 66
CallerKeys ==
    IF query' = user_media_query THEN {"userId", "status"} ELSE {"season", "seasonYear"}

\* the step starts a call of safe_post_request
NewRequest == calls' = calls + 1

\* the page depaginated_request has just got is well formed and says it is the last
LastPageSeen ==
    /\ ppc = "await81"
    /\ tpc = "returned"
    /\ Page(result).ok
    /\ ~Page(result).more

\* C16: the k-th request of a call of depaginated_request is for the query of the
\* call, with page = k, perPage = 50 and the caller's variables, the same in every
\* request; it is the only request in flight; and once a well-formed page has said
\* hasNextPage is false the call returns in its next step and makes no request.
C16_PagesInOrder ==
    [][/\ NewRequest
            => /\ post_json'.query = query'
               /\ post_json'.variables.page = calls'
               /\ post_json'.variables.perPage = 50
               /\ DOMAIN post_json'.variables = {"page", "perPage"} \cup CallerKeys
               /\ calls >= 1 => \A k \in CallerKeys :
                                    post_json'.variables[k] = post_json.variables[k]
               /\ in_flight' = <<post_json'>>
       /\ LastPageSeen => ppc' = "returned" /\ ~NewRequest
       /\ (ppc \in {"returned", "failed"}) => ~NewRequest]_vars

\* the third page has been asked for, after two pages that had a next page
C16_Witness ==
    /\ ppc = "await81"
    /\ tpc = "post17"
    /\ calls = 3
    /\ post_json.variables.page = 3
    /\ Len(out_list) = 2

-----------------------------------------------------------------------------
(* Failures of requests.post in safe_post_request, checked under SpecPost *)

\* the step takes the request out of flight with no response and no rate limit met:
\* requests.post has raised something that is not the hidden 429
PostFailed ==
    /\ tpc = "post17"
    /\ in_flight' = <<>>
    /\ response' = response
    /\ rate_limits' = rate_limits

\* C17: the step in which requests.post fails with anything but the hidden 429 ends
\* the call with that exception: nothing is posted again and total_queries keeps
\* its value; the caller then takes the exception and the call is gone.
C17_TransportFailurePropagates ==
    [][/\ PostFailed
            => /\ tpc' = "raised"
               /\ exc' = "ConnectionError"
               /\ total_queries' = total_queries
               /\ calls' = calls
       /\ (tpc = "raised" /\ exc = "ConnectionError")
            => /\ tpc' = "idle"
               /\ exc' = exc
               /\ in_flight' = <<>>
               /\ total_queries' = total_queries]_vars

\* a second call has failed at transport level on its retry after a 429; the first
\* call is the only one counted
C17_Witness ==
    /\ tpc = "raised"
    /\ exc = "ConnectionError"
    /\ calls = 2
    /\ n429 = 1
    /\ total_queries = 1

-----------------------------------------------------------------------------
(* main called again in the same process, upcoming_sequels.py:134-173, for a *)
(* user whose lists are empty, in seasons that have no shows                 *)

MaxCallsBeforeRerun == 2

\* The caller of main takes its outcome, the return or the exception: the frame of
\* main is gone, what the next run prints and receives is observed afresh.
MainOver ==
    /\ mpc \in {"done", "aborted"}
    /\ calls < MaxCallsBeforeRerun
    /\ mpc' = "idle"
    /\ user_id' = 0
    /\ by_status' = <<>>
    /\ cur_date' = [year |-> 0, month |-> 1]
    /\ season_i' = 0
    /\ shows' = <<>>
    /\ show_n' = 0
    /\ stdout' = <<>>
    /\ verdicts' = <<>>
    /\ listed' = {}
    /\ answered' = 0
    /\ UNCHANGED <<tpc, post_json, response, sleep_for, total_queries, result, exc, calls,
                   n429, nvars, pvars, wvars, avars, svars>>

InitRuns ==
    InitTransport /\ InitPages /\ InitServer /\ InitWalk /\ InitMain
    /\ rate_limits = MaxRateLimitedMain /\ edges_left = 0 /\ server = PlainServer

NextRuns ==
    \/ MainCall
    \/ MainUserId
    \/ MainStatus
    \/ MainUserMedia
    \/ MainUnion
    \/ MainSeason
    \/ MainSeasonShows
    \/ MainSeasonEnd
    \/ MainEnd
    \/ MainAbortUserId
    \/ MainAbortList
    \/ MainOver
    \/ PageRaise
    \/ PageFail
    \/ PageReturn
    \/ RecvOk
    \/ RecvError
    \/ RecvRateLimited
    \/ RecvJsException
    \/ RecvException
    \/ WakeRetry
    \/ WakeReturn
    \/ WakeRaise

SpecRuns == InitRuns /\ [][NextRuns]_vars

\* C18: when a run of main has ended normally, the number in the "Total queries"
\* line it has printed last is the number of responses other than 429 received
\* since that run was started.
C18_TotalOfTheRun ==
    mpc = "done" => stdout[Len(stdout)] = [line |-> "total", of |-> answered]

-----------------------------------------------------------------------------
(* safe_post_request to its end. Every step that can be taken is taken in   *)
(* the end: a sleep elapses, the request posted is answered or fails, and    *)
(* the server, which gives finitely many rate-limit answers, then gives      *)
(* another.                                                                  *)

FairPost == InitPost /\ [][NextPost]_vars /\ WF_vars(NextPost)

\* C19: a call of safe_post_request that is in progress ends: on a response that
\* is not a 429, by returning its data or raising on its status, or on an
\* exception of requests.post; it does not end because of a 429.
C19_CallCompletes ==
    (tpc \in {"post17", "sleep31", "sleep44", "sleep50"})
        ~> (Ended /\ (Is429 => tpc = "raised" /\ exc = "ConnectionError"))

\* a first call has returned although the server had answered it with a 429 and
\* hidden another from it, as many rate-limit answers as it gives
C19_Witness ==
    /\ tpc = "returned"
    /\ calls = 1
    /\ n429 = 1
    /\ rate_limits = 0

-----------------------------------------------------------------------------
(* The requests of a run of main, checked under SpecMain *)

\* C20: at most one request is in flight; a call of safe_post_request, be it for
\* the user, a page or the relations of a media, is started only when no request is
\* in flight and no call is awaiting a response or sleeping; and a request is
\* posted again only by the call that is sleeping on its last answer, when the
\* sleep ends.
C20_OneRequestAtATime ==
    [][/\ Len(in_flight') <= 1
       /\ NewRequest => /\ in_flight = <<>>
                        /\ tpc \in {"idle", "returned"}
                        /\ sleep_for = 0
                        /\ in_flight' = <<post_json'>>
       /\ (in_flight' # in_flight /\ in_flight' # <<>> /\ ~NewRequest)
            => /\ Sleeping
               /\ in_flight = <<>>
               /\ in_flight' = <<post_json>>
               /\ sleep_for' = 0]_vars

\* the relations of a second media of a walk are asked for, the only request in
\* flight, after the requests for the user, the lists and a season
C20_Witness ==
    /\ mpc = "await169"
    /\ wpc = "await116"
    /\ tpc = "post17"
    /\ Len(expanded) = 2
    /\ in_flight = <<relations_query(cur_show_id)>>
    /\ n429 = 1

====
